---------------------------- MODULE Spec2Model ----------------------------
(***************************************************************************)
(* A model of opm/utils.py: the patch size resolver                        *)
(* (get_patch_size_in_microns) and the mask pipeline (basic_pen_mask,      *)
(* basic_hsv_mask, hybrid_mask).                                           *)
(*                                                                         *)
(* Python values are records [kind, val]: kind is the Python type.  A str  *)
(* is a sequence of one-character strings.  A float is an exact rational   *)
(* <<numerator, denominator>> in lowest terms; the microns-per-pixel       *)
(* values of the model are dyadic, so that every quotient that is a tie in *)
(* the rationals is computed exactly by binary floating point as well.     *)
(***************************************************************************)
EXTENDS Integers, Sequences, FiniteSets, TLC

VARIABLES
    patch_size_from_config, \* the size specification handed to the resolver
    metadata,               \* the slide's properties (key -> microns per pixel)
    outcome,                \* how the resolver call ended
    opened,                 \* the number of tiffslide.open_slide calls made
    dims,                   \* the two tokens the specification was written
                            \* from (<<>> for a free specification)
    image,                  \* a one-row RGB image: a sequence of pixels
    pen_args,               \* the (pen_size_threshold, pen_mask_expansion)
                            \* the caller passes to basic_pen_mask
    pen,                    \* how the basic_pen_mask call ended
    hsv,                    \* how the basic_hsv_mask call ended
    hybrid                  \* how the hybrid_mask call ended

vars == <<patch_size_from_config, metadata, outcome, opened, dims,
          image, pen_args, pen, hsv, hybrid>>

resolverVars == <<patch_size_from_config, metadata, outcome, opened, dims>>
maskVars == <<image, pen_args, pen, hsv, hybrid>>

-----------------------------------------------------------------------------
(* Bounds of the model. *)

MaxStrLen == 3       \* free strings have at most this many characters
MaxListLen == 3      \* list specifications have at most this many tokens
MaxPx == 3           \* pixel counts 0..MaxPx (and 10 and 256)
MaxHalfMicrons == 3  \* micron lengths k/2 for k in 1..MaxHalfMicrons (and 100)
ImgW == 3            \* the width of the one-row images
MaxThreshold == 2    \* pen_size_threshold in 0..MaxThreshold
MaxExpansion == 1    \* pen_mask_expansion in 0..MaxExpansion

-----------------------------------------------------------------------------
(* Python values. *)

PyStr(s) == [kind |-> "str", val |-> s]
PyInt(n) == [kind |-> "int", val |-> n]
PyFloat(q) == [kind |-> "float", val |-> q]
PyList(l) == [kind |-> "list", val |-> l]
PyNone == [kind |-> "NoneType", val |-> 0]

RECURSIVE Gcd(_, _)
Gcd(a, b) == IF b = 0 THEN a ELSE Gcd(b, a % b)

\* The rational n/d (n >= 0, d > 0) in lowest terms.
Rat(n, d) == LET g == Gcd(n, d) IN <<n \div g, d \div g>>

Digits == <<"0", "1", "2", "3", "4", "5", "6", "7", "8", "9">>

IsDigit(c) == \E d \in 1..10 : Digits[d] = c

DigitValue(c) == (CHOOSE d \in 1..10 : Digits[d] = c) - 1

\* str(n) of a non-negative int: its decimal digits.
RECURSIVE IntToStr(_)
IntToStr(n) ==
    IF n < 10 THEN <<Digits[n + 1]>>
    ELSE Append(IntToStr(n \div 10), Digits[(n % 10) + 1])

\* int(s) of a string of decimal digits.
RECURSIVE StrToInt(_)
StrToInt(s) ==
    IF Len(s) = 0 THEN 0
    ELSE 10 * StrToInt(SubSeq(s, 1, Len(s) - 1)) + DigitValue(s[Len(s)])

\* str(x), as line 295 applies it to a token.
ToStr(x) ==
    CASE x.kind = "str" -> x.val
      [] x.kind = "int" ->
            IF x.val >= 0 THEN IntToStr(x.val)
            ELSE <<"-">> \o IntToStr(0 - x.val)
      [] x.kind = "float" ->
            IntToStr(x.val[1] \div x.val[2]) \o <<".">>
                \o IntToStr(((x.val[1] % x.val[2]) * 10) \div x.val[2])
      [] OTHER -> <<"N", "o", "n", "e">>

\* s.isnumeric(): at least one character, and all of them numeric.
IsNumeric(s) == Len(s) > 0 /\ \A i \in 1..Len(s) : IsDigit(s[i])

\* sub in s, for a one-character sub.
Contains(s, c) == \E i \in 1..Len(s) : s[i] = c

\* s.replace(old, ""): the occurrences of old removed, left to right.
RECURSIVE Remove(_, _)
Remove(s, old) ==
    IF Len(s) < Len(old) THEN s
    ELSE IF SubSeq(s, 1, Len(old)) = old
         THEN Remove(SubSeq(s, Len(old) + 1, Len(s)), old)
         ELSE <<s[1]>> \o Remove(SubSeq(s, 2, Len(s)), old)

\* s.split(sep) for a one-character sep: count(sep) + 1 pieces.
RECURSIVE Split(_, _)
Split(s, sep) ==
    IF ~Contains(s, sep) THEN <<s>>
    ELSE LET i == CHOOSE k \in 1..Len(s) :
                      s[k] = sep /\ \A j \in 1..(k - 1) : s[j] # sep
         IN <<SubSeq(s, 1, i - 1)>> \o Split(SubSeq(s, i + 1, Len(s)), sep)

\* s.strip() of spaces, as float() does before it parses.
RECURSIVE Strip(_)
Strip(s) ==
    IF Len(s) > 0 /\ s[1] = " " THEN Strip(SubSeq(s, 2, Len(s)))
    ELSE IF Len(s) > 0 /\ s[Len(s)] = " " THEN Strip(SubSeq(s, 1, Len(s) - 1))
    ELSE s

RECURSIVE Pow10(_)
Pow10(n) == IF n = 0 THEN 1 ELSE 10 * Pow10(n - 1)

\* Whether float(s) parses: digits with at most one decimal point and at
\* least one digit (signs, exponents, inf and nan are outside the alphabet).
FloatParses(s) ==
    LET t == Strip(s) IN
    /\ \A i \in 1..Len(t) : IsDigit(t[i]) \/ t[i] = "."
    /\ \E i \in 1..Len(t) : IsDigit(t[i])
    /\ Cardinality({i \in 1..Len(t) : t[i] = "."}) <= 1

\* float(s), for a string that parses.
FloatOf(s) ==
    LET t == Strip(s)
        parts == Split(t, ".")
        whole == parts[1]
        frac == IF Len(parts) > 1 THEN parts[2] ELSE <<>>
    IN Rat(StrToInt(whole) * Pow10(Len(frac)) + StrToInt(frac), Pow10(Len(frac)))

\* round(p/q) of Python 3: to the nearest integer, a tie to the even one.
Round(p, q) ==
    LET f == p \div q
        r == p % q
    IN IF 2 * r < q THEN f
       ELSE IF 2 * r > q THEN f + 1
       ELSE IF f % 2 = 0 THEN f ELSE f + 1


-----------------------------------------------------------------------------
(* The patch size resolver: get_patch_size_in_microns. *)

\* tiffslide.PROPERTY_NAME_MPP_X / _Y and the other keys, in priority order.
XKeys == <<"tiffslide.mpp-x", "tiff.XResolution", "XResolution">>
YKeys == <<"tiffslide.mpp-y", "tiff.YResolution", "YResolution">>

DefaultMagnificationOne == <<1, 1>>

\* magnification = -1: no value.
NoMagnification == <<-1, 1>>

\* The separators tried on a string, in the order of the code.
Separators == <<",", "x", "X", "*">>

\* sub in s, for a string sub.
HasSub(s, sub) ==
    \E i \in 1..(Len(s) - Len(sub) + 1) : SubSeq(s, i, i + Len(sub) - 1) = sub

\* Lines 272-274: the spaces and the square brackets removed.
Cleaned(s) == Remove(Remove(Remove(s, <<" ">>), <<"[">>), <<"]">>)

RECURSIVE TrySplitLowerOnly(_, _)
TrySplitLowerOnly(s, k) ==
    IF k > 2 THEN <<s>>
    ELSE LET pieces == Split(s, Separators[k])
         IN IF Len(pieces) = 1 THEN TrySplitLowerOnly(s, k + 1) ELSE pieces

\* Lines 276-282: split on the first separator that yields several tokens.
RECURSIVE TrySplit(_, _)
TrySplit(s, k) ==
    IF k > Len(Separators) THEN <<s>>
    ELSE LET pieces == Split(s, Separators[k])
         IN IF Len(pieces) = 1 THEN TrySplit(s, k + 1) ELSE pieces

TokenizeLenient(config) ==
    IF config.kind = "str"
    THEN LET pieces == TrySplit(Cleaned(config.val), 1)
         IN [exc |-> "none",
             patch_size |-> [i \in 1..Len(pieces) |-> PyStr(pieces[i])]]
    ELSE IF config.kind \in {"list", "tuple"}
    THEN [exc |-> "none", patch_size |-> config.val]
    ELSE [exc |-> "ValueError", patch_size |-> <<>>]

\* Lines 267-290: the tokens of the specification, or the ValueError.
Tokenize(config) ==
    IF config.kind = "str"
    THEN LET pieces == TrySplit(Cleaned(config.val), 1)
         IN IF Len(pieces) = 1
            THEN [exc |-> "ValueError", patch_size |-> <<>>]
            ELSE [exc |-> "none",
                  patch_size |-> [i \in 1..Len(pieces) |-> PyStr(pieces[i])]]
    ELSE IF config.kind \in {"list", "tuple"}
    THEN [exc |-> "none", patch_size |-> config.val]
    ELSE [exc |-> "ValueError", patch_size |-> <<>>]

RECURSIVE LookupLast(_, _, _)
LookupLast(keys, md, k) ==
    IF k > Len(keys) THEN <<-1, 1>>
    ELSE LET later == LookupLast(keys, md, k + 1)
         IN IF later # <<-1, 1>> THEN later
            ELSE IF keys[k] \in DOMAIN md THEN md[keys[k]] ELSE later

\* Lines 307-311 and 313-316: the value of the first key present, or -1.
RECURSIVE Lookup(_, _, _)
Lookup(keys, md, k) ==
    IF k > Len(keys) THEN NoMagnification
    ELSE IF keys[k] \in DOMAIN md THEN md[keys[k]]
    ELSE Lookup(keys, md, k + 1)

AssignSwapped(st, i, v) ==
    IF i < 2 THEN [st EXCEPT !.return_patch_size[2 - i] = v]
    ELSE [st EXCEPT !.exc = "IndexError"]

\* return_patch_size[i] = v: the list has two places.
Assign(st, i, v) ==
    IF i < 2 THEN [st EXCEPT !.return_patch_size[i + 1] = v]
    ELSE [st EXCEPT !.exc = "IndexError"]

\* Lines 306-319: the magnification of dimension i.
Magnification(st, i, md) ==
    IF i = 0 THEN Lookup(XKeys, md, 1)
    ELSE IF i = 1
    THEN LET y == Lookup(YKeys, md, 1)
         IN IF y = NoMagnification THEN st.magnification_prev ELSE y
    ELSE NoMagnification

\* Lines 304-331: a token that holds "m".
MicronToken(st, i, tok, md) ==
    LET magnification == Magnification(st, i, md)
        prev == IF i = 0 /\ magnification # NoMagnification
                THEN magnification ELSE st.magnification_prev
        st1 == [st EXCEPT !.opened = @ + 1, !.magnification_prev = prev]
        text == Remove(Remove(tok.val, <<"m", "u">>), <<"m">>)
    IN IF ~FloatParses(text) THEN [st1 EXCEPT !.exc = "ValueError"]
       ELSE IF magnification[1] > 0
       THEN LET size_in_microns == FloatOf(text)
                px == Round(size_in_microns[1] * magnification[2],
                            size_in_microns[2] * magnification[1])
            IN [Assign(st1, i, PyInt(px)) EXCEPT
                    !.magnification_prev = magnification]
       ELSE st1

\* Lines 294-333: one pass of the loop, for the token at (0-based) index i.
LoopBody(st, i, patch_size, md) ==
    LET tok == patch_size[i + 1] IN
    IF IsNumeric(ToStr(tok))
    THEN Assign(st, i,
                PyInt(IF tok.kind = "str" THEN StrToInt(tok.val) ELSE tok.val))
    ELSE IF tok.kind = "str"
    THEN IF Contains(tok.val, "m") \/ HasSub(tok.val, <<"m", "u">>)
         THEN MicronToken(st, i, tok, md)
         ELSE IF FloatParses(tok.val)
              THEN Assign(st, i, PyFloat(FloatOf(tok.val)))
              ELSE [st EXCEPT !.exc = "ValueError"]
    ELSE st

\* Lines 292-293: the loop over the tokens; an exception ends it.
RECURSIVE Loop(_, _, _, _)
Loop(st, i, patch_size, md) ==
    IF i >= Len(patch_size) \/ st.exc # "none" THEN st
    ELSE Loop(LoopBody(st, i, patch_size, md), i + 1, patch_size, md)

\* get_patch_size_in_microns(input_slide_path, config) on a slide whose
\* properties are md: how the call ends and how often it opened the slide.
GetPatchSizeInMicrons(config, md) ==
    LET t == Tokenize(config) IN
    IF t.exc # "none"
    THEN [kind |-> "raise", val |-> t.exc, opened |-> 0]
    ELSE LET st == Loop([return_patch_size |-> <<PyInt(0), PyInt(0)>>,
                         magnification_prev |-> NoMagnification,
                         opened |-> 0,
                         exc |-> "none"], 0, t.patch_size, md)
         IN IF st.exc # "none"
            THEN [kind |-> "raise", val |-> st.exc, opened |-> st.opened]
            ELSE [kind |-> "return", val |-> st.return_patch_size,
                  opened |-> st.opened]

NotCalled == [kind |-> "none", val |-> <<>>]

\* The call of the resolver on the inputs of the state.
Resolve ==
    /\ outcome = NotCalled
    /\ LET r == GetPatchSizeInMicrons(patch_size_from_config, metadata)
       IN /\ outcome' = [kind |-> r.kind, val |-> r.val]
          /\ opened' = r.opened
    /\ UNCHANGED <<patch_size_from_config, metadata, dims, maskVars>>

-----------------------------------------------------------------------------
(* The mask pipeline, on a one-row image (H = 1): a sequence of pixels     *)
(* [r, g, b] of 8-bit channels.                                            *)

Byte == 0..255

MIN_COLOR_DIFFERENCE == 40
MIN_SAT == <<20, 255>>
MIN_VAL == <<30, 255>>

\* a - b in numpy's uint8 arithmetic.
Sub8(a, b) == (a - b) % 256

GreenMaskNoGuard(p) == Sub8(p.g, p.b) > MIN_COLOR_DIFFERENCE

\* Lines 119-123, at one pixel.
GreenMask(p) == p.g > p.b /\ Sub8(p.g, p.b) > MIN_COLOR_DIFFERENCE

\* Lines 125-129, at one pixel.
BlueMask(p) == p.b > p.g /\ Sub8(p.b, p.g) > MIN_COLOR_DIFFERENCE

\* Line 131.
MaskedPen(img) == [i \in 1..Len(img) |-> GreenMask(img[i]) \/ BlueMask(img[i])]

\* The connected component of i in a one-row mask: the run of TRUE around i.
Component(mask, i) ==
    {j \in 1..Len(mask) :
        \A k \in 1..Len(mask) :
            ((j <= k /\ k <= i) \/ (i <= k /\ k <= j)) => mask[k]}

\* Line 132: remove_small_objects drops the components smaller than min_size.
RemoveSmallObjects(mask, min_size) ==
    [i \in 1..Len(mask) |->
        mask[i] /\ Cardinality(Component(mask, i)) >= min_size]

\* Line 134: the local maximum over disk(radius), which in one row is the
\* pixels at distance <= radius.
Maximum(mask, radius) ==
    [i \in 1..Len(mask) |->
        \E j \in 1..Len(mask) : j - i <= radius /\ i - j <= radius /\ mask[j]]

\* basic_pen_mask called with the positional arguments args.
BasicPenMaskCall(args) ==
    IF Len(args) # 3
    THEN [kind |-> "raise", val |-> "TypeError"]
    ELSE LET masked_pen == MaskedPen(args[1])
             new_mask_image == RemoveSmallObjects(masked_pen, args[2])
         IN [kind |-> "return", masked_pen |-> masked_pen,
             val |-> Maximum(new_mask_image, args[3])]

Max3(p) ==
    IF p.r >= p.g /\ p.r >= p.b THEN p.r ELSE IF p.g >= p.b THEN p.g ELSE p.b

Min3(p) ==
    IF p.r <= p.g /\ p.r <= p.b THEN p.r ELSE IF p.g <= p.b THEN p.g ELSE p.b

\* rgb2hsv: saturation = (max - min) / max, and 0 where max = min;
\* value = max / 255.  Each as a fraction <<numerator, denominator>>.
Saturation(p) ==
    IF Max3(p) = Min3(p) THEN <<0, 1>> ELSE <<Max3(p) - Min3(p), Max3(p)>>

Value(p) == <<Max3(p), 255>>

\* x < y, x = y for fractions with positive denominators.
Less(x, y) == x[1] * y[2] < y[1] * x[2]
Same(x, y) == x[1] * y[2] = y[1] * x[2]

HsvPixelBoth(p, s, v) == s /\ v

\* Lines 146-149, at one pixel: the two comparisons joined.
HsvPixel(p, s, v) == s \/ v

\* The outcomes of x <= threshold in floating point: decided when the
\* fractions differ, either one when they are equal and not zero (the
\* rounding of the operands decides, and differs between the two sides).
Compare(x, threshold) ==
    IF Less(x, threshold) THEN {TRUE}
    ELSE IF Same(x, threshold) THEN {TRUE, FALSE}
    ELSE {FALSE}

\* basic_hsv_mask: the masks it can return for img.
BasicHsvMaskResults(img) ==
    {m \in [1..Len(img) -> BOOLEAN] :
        \A i \in 1..Len(img) :
            \E s \in Compare(Saturation(img[i]), MIN_SAT) :
                \E v \in Compare(Value(img[i]), MIN_VAL) :
                    m[i] = HsvPixel(img[i], s, v)}

\* Line 153: hybrid_mask calls basic_hsv_mask(image), then basic_pen_mask
\* with the image alone.
HybridMaskCall(img, hsv_result) ==
    LET p == BasicPenMaskCall(<<img>>) IN
    IF p.kind = "raise" THEN [kind |-> "raise", val |-> p.val]
    ELSE [kind |-> "return",
          val |-> [i \in 1..Len(img) |-> ~(hsv_result[i] \/ p.val[i])]]

BasicPenMask ==
    /\ pen = NotCalled
    /\ pen' = BasicPenMaskCall(<<image, pen_args[1], pen_args[2]>>)
    /\ UNCHANGED <<resolverVars, image, pen_args, hsv, hybrid>>

BasicHsvMask ==
    /\ hsv = NotCalled
    /\ \E m \in BasicHsvMaskResults(image) :
           hsv' = [kind |-> "return", val |-> m]
    /\ UNCHANGED <<resolverVars, image, pen_args, pen, hybrid>>

HybridMask ==
    /\ hybrid = NotCalled
    /\ \E m \in BasicHsvMaskResults(image) : hybrid' = HybridMaskCall(image, m)
    /\ UNCHANGED <<resolverVars, image, pen_args, pen, hsv>>

-----------------------------------------------------------------------------
(* The inputs the calls are made on. *)

\* The microns per pixel a slide reports under each key: positive, dyadic,
\* and different under the keys of one axis.
Mpp ==
    [k \in {XKeys[i] : i \in 1..3} \cup {YKeys[i] : i \in 1..3} |->
        CASE k = XKeys[1] -> <<1, 2>>
          [] k = XKeys[2] -> <<1, 4>>
          [] k = XKeys[3] -> <<2, 1>>
          [] k = YKeys[1] -> <<1, 2>>
          [] k = YKeys[2] -> <<1, 1>>
          [] OTHER -> <<4, 1>>]

\* Every slide metadata mapping over the six keys, the empty one included.
AllMetadata == {[k \in K |-> Mpp[k]] : K \in SUBSET DOMAIN Mpp}

\* The mappings that hold at most the first key of each axis.
SmallMetadata == {[k \in K |-> Mpp[k]] : K \in SUBSET {XKeys[1], YKeys[1]}}

\* A dimension: a pixel count n, or a micron length of half / 2 microns
\* written with the marker "m" or "mu".
PixelDims == {[kind |-> "px", n |-> n] : n \in (0..MaxPx) \cup {10, 256}}

MicronDims ==
    {[kind |-> "um", half |-> h, marker |-> m] :
        h \in (1..MaxHalfMicrons) \cup {200}, m \in {<<"m">>, <<"m", "u">>}}

Dims == PixelDims \cup MicronDims

\* The token a dimension is written as.
DimText(d) ==
    IF d.kind = "px" THEN IntToStr(d.n)
    ELSE IntToStr(d.half \div 2)
            \o (IF d.half % 2 = 1 THEN <<".", "5">> ELSE <<>>) \o d.marker

\* The string "A<sep>B", plain, with spaces, or in square brackets.
Written(a, b, sep, style) ==
    CASE style = "plain" -> DimText(a) \o <<sep>> \o DimText(b)
      [] style = "spaced" ->
            <<" ">> \o DimText(a) \o <<" ", sep, " ">> \o DimText(b)
      [] OTHER -> <<"[">> \o DimText(a) \o <<sep, " ">> \o DimText(b) \o <<"]">>

\* A dimension as an element of a list: a str, or an int for a pixel count.
AsStr(d) == PyStr(DimText(d))
AsNative(d) == IF d.kind = "px" THEN PyInt(d.n) ELSE PyStr(DimText(d))

\* The specifications of two dimensions in every delimiter and style.
DelimInputs ==
    {<<PyStr(Written(a, b, sep, style)), <<a, b>>>> :
        a \in Dims, b \in Dims,
        sep \in {",", "x", "X", "*"}, style \in {"plain", "spaced", "bracketed"}}

\* The specifications of two dimensions as "A,B" and as two-element lists.
PairInputs ==
    {<<PyStr(Written(a, b, ",", "plain")), <<a, b>>>> : a \in Dims, b \in Dims}
    \cup {<<PyList(<<AsStr(a), AsStr(b)>>), <<a, b>>>> : a \in Dims, b \in Dims}
    \cup {<<PyList(<<AsNative(a), AsNative(b)>>), <<a, b>>>> :
            a \in Dims, b \in Dims}

Alphabet == {"2", "m", ".", ",", "x", "X", "*", " ", "[", "]", "a"}

FreeStrings == UNION {[1..n -> Alphabet] : n \in 0..MaxStrLen}

ListTokens ==
    {PyInt(2), PyInt(-1), PyStr(<<"2">>), PyStr(<<"2", "m">>), PyStr(<<"a">>),
     PyStr(<<".", "5">>), PyFloat(<<5, 2>>), PyNone}

FreeLists == UNION {[1..n -> ListTokens] : n \in 0..MaxListLen}

\* Every string, list and tuple within the bounds, and values of other types.
FreeInputs ==
    {<<PyStr(s), <<>>>> : s \in FreeStrings}
    \cup {<<[kind |-> k, val |-> l], <<>>>> :
            k \in {"list", "tuple"}, l \in FreeLists}
    \cup {<<x, <<>>>> : x \in {PyInt(42), PyFloat(<<5, 2>>), PyNone}}

Colours ==
    {[r |-> 0, g |-> 0, b |-> 0],         \* black
     [r |-> 255, g |-> 255, b |-> 255],   \* white
     [r |-> 30, g |-> 200, b |-> 60],     \* green pen
     [r |-> 20, g |-> 40, b |-> 200],     \* blue pen
     [r |-> 200, g |-> 100, b |-> 150],   \* stained tissue
     [r |-> 255, g |-> 235, b |-> 235]}   \* saturation exactly 20/255

-----------------------------------------------------------------------------
(* The specifications. *)

NoMasks ==
    /\ image = <<>>
    /\ pen_args = <<0, 0>>
    /\ pen = NotCalled
    /\ hsv = NotCalled
    /\ hybrid = NotCalled

InitResolver(inputs, mds) ==
    /\ \E in \in inputs : patch_size_from_config = in[1] /\ dims = in[2]
    /\ metadata \in mds
    /\ outcome = NotCalled
    /\ opened = 0
    /\ NoMasks

InitMasks(images, args) ==
    /\ patch_size_from_config = PyNone
    /\ dims = <<>>
    /\ metadata = <<>>
    /\ outcome = NotCalled
    /\ opened = 0
    /\ image \in images
    /\ pen_args \in args
    /\ pen = NotCalled
    /\ hsv = NotCalled
    /\ hybrid = NotCalled

\* The resolver on every string, list and other value within the bounds.
Init == InitResolver(FreeInputs, SmallMetadata)
Next == Resolve
Spec == Init /\ [][Next]_vars

\* The resolver on two dimensions in every delimiter and style.
InitDelim == InitResolver(DelimInputs, SmallMetadata)
SpecDelim == InitDelim /\ [][Next]_vars

\* The resolver on two dimensions and every metadata mapping.
InitPair == InitResolver(PairInputs, AllMetadata)
SpecPair == InitPair /\ [][Next]_vars

\* The mask pipeline on the images of ImgW pixels drawn from Colours.
InitMask ==
    InitMasks([1..ImgW -> Colours], (0..MaxThreshold) \X (0..MaxExpansion))
NextMask == BasicPenMask \/ BasicHsvMask \/ HybridMask
SpecMask == InitMask /\ [][NextMask]_vars

\* basic_pen_mask on every single pixel (G, B), with a threshold that removes
\* nothing and no expansion.
InitPen ==
    InitMasks({<<[r |-> 0, g |-> g, b |-> b]>> : g \in Byte, b \in Byte},
              {<<0, 0>>, <<1, 0>>})
NextPen == BasicPenMask
SpecPen == InitPen /\ [][NextPen]_vars

-----------------------------------------------------------------------------
(* The properties. *)

Returned == outcome.kind = "return"
Raised(e) == outcome = [kind |-> "raise", val |-> e]

HasKey(keys) == \E i \in 1..3 : keys[i] \in DOMAIN metadata

\* The value under the first key of keys that the metadata holds.
FirstValue(keys) ==
    metadata[keys[CHOOSE i \in 1..3 :
                      /\ keys[i] \in DOMAIN metadata
                      /\ \A j \in 1..(i - 1) : keys[j] \notin DOMAIN metadata]]

AxisKeys(a) == IF a = 1 THEN XKeys ELSE YKeys

\* n is the integer nearest to (half / 2) / m, which is not a tie.
Nearest(n, half, m) ==
    LET num == half * m[2]
        den == 2 * m[1]
    IN 2 * (num - n * den) < den /\ 2 * (n * den - num) < den

IsTie(half, m) == 2 * ((half * m[2]) % (2 * m[1])) = 2 * m[1]

\* C1: hybrid_mask(image) returns a mask, which is pixelwise the negation of
\* (basic_pen_mask(image, ...) OR basic_hsv_mask(image)).
C1_HybridIsNegation ==
    hybrid # NotCalled =>
        /\ hybrid.kind = "return"
        /\ \E t \in 0..MaxThreshold, e \in 0..MaxExpansion :
             \E h \in BasicHsvMaskResults(image) :
                hybrid.val =
                    [i \in 1..Len(image) |->
                        ~(BasicPenMaskCall(<<image, t, e>>).val[i] \/ h[i])]

\* C2: two pixel counts w and h, written "w,h" or given as a list, resolve to
\* exactly the integers (w, h), whatever the slide metadata holds, and
\* without opening the slide.
C2_PixelPair ==
    (outcome # NotCalled /\ dims[1].kind = "px" /\ dims[2].kind = "px") =>
        /\ outcome = [kind |-> "return",
                      val |-> <<PyInt(dims[1].n), PyInt(dims[2].n)>>]
        /\ opened = 0

C2_Witness ==
    /\ Returned
    /\ patch_size_from_config.kind = "list"
    /\ dims = <<[kind |-> "px", n |-> 256], [kind |-> "px", n |-> 10]>>
    /\ DOMAIN metadata = DOMAIN Mpp

\* C3: "AxB", "AXB" and "A*B", with or without spaces and square brackets,
\* end as "A,B" does: the same returned pair or the same failure.
C3_DelimitersAgree ==
    outcome # NotCalled =>
        LET r == GetPatchSizeInMicrons(
                    PyStr(Written(dims[1], dims[2], ",", "plain")), metadata)
        IN outcome = [kind |-> r.kind, val |-> r.val] /\ opened = r.opened

C3_Witness ==
    /\ Returned
    /\ Contains(patch_size_from_config.val, "X")
    /\ Contains(patch_size_from_config.val, "[")
    /\ dims[1].kind = "um"
    /\ dims[2].kind = "px"
    /\ outcome.val[1].val > 0

\* C4: a micron length on an axis whose metadata holds one of the axis's keys
\* resolves to the length divided by the value of the first key present,
\* rounded to the nearest integer when the quotient is not a tie.
C4_FirstKeyRounded ==
    outcome # NotCalled =>
        /\ Returned
        /\ \A a \in 1..2 :
             (/\ dims[a].kind = "um"
              /\ HasKey(AxisKeys(a))
              /\ ~IsTie(dims[a].half, FirstValue(AxisKeys(a)))) =>
                /\ outcome.val[a].kind = "int"
                /\ Nearest(outcome.val[a].val, dims[a].half,
                           FirstValue(AxisKeys(a)))

\* "100m,100m" with mpp_x = mpp_y = 0.5, and lower-priority keys present with
\* other values, gives (200, 200).
C4_Witness ==
    /\ outcome = [kind |-> "return", val |-> <<PyInt(200), PyInt(200)>>]
    /\ patch_size_from_config.kind = "str"
    /\ dims = <<[kind |-> "um", half |-> 200, marker |-> <<"m">>],
               [kind |-> "um", half |-> 200, marker |-> <<"m">>]>>
    /\ DOMAIN metadata = DOMAIN Mpp

\* The height has no microns per pixel: no Y-axis key, and no X-axis value
\* resolved for a micron width before it.
HeightUnresolved ==
    ~HasKey(YKeys) /\ ~(dims[1].kind = "um" /\ HasKey(XKeys))

\* The result of dimension a when the other dimension is the pixel count 0.
Alone(a) ==
    LET zero == [kind |-> "px", n |-> 0]
        other == IF a = 1 THEN <<AsStr(dims[1]), AsStr(zero)>>
                 ELSE <<AsStr(zero), AsStr(dims[2])>>
    IN GetPatchSizeInMicrons(PyList(other), metadata).val[a]

HasSeparator(s) == \E i \in 1..Len(s) : s[i] \in {",", "x", "X", "*"}

\* C6: a specification that is neither a string nor a list or tuple, and a
\* string that holds no separator, raise ValueError before any slide is opened.
C6_ParseError ==
    (/\ outcome # NotCalled
     /\ \/ patch_size_from_config.kind \notin {"str", "list", "tuple"}
        \/ /\ patch_size_from_config.kind = "str"
           /\ ~HasSeparator(patch_size_from_config.val)) =>
        Raised("ValueError") /\ opened = 0

C6_Witness ==
    /\ Raised("ValueError")
    /\ patch_size_from_config = PyStr(<<"[", "2", "m">>)
    /\ opened = 0

C8_HeightFallsBackToX ==
    (/\ outcome # NotCalled
     /\ dims[2].kind = "um"
     /\ ~HasKey(YKeys)
     /\ HasKey(XKeys)) =>
        /\ Returned
        /\ outcome.val[2] =
              PyInt(Round(dims[2].half * FirstValue(XKeys)[2],
                          2 * FirstValue(XKeys)[1]))

\* C9: a call on a string, a list or a tuple returns two dimensions or raises
\* ValueError, and ends in no other way.
C9_PairOrParseError ==
    (/\ outcome # NotCalled
     /\ patch_size_from_config.kind \in {"str", "list", "tuple"}) =>
        \/ Returned /\ Len(outcome.val) = 2
        \/ Raised("ValueError")

\* C10: the pen classification flags a pixel exactly when G - B > 40 or
\* B - G > 40 in integer arithmetic, for all 8-bit G and B.
C10_PenClassification ==
    pen # NotCalled =>
        /\ pen.kind = "return"
        /\ \A i \in 1..Len(image) :
             pen.masked_pen[i] <=>
                (image[i].g - image[i].b > 40 \/ image[i].b - image[i].g > 40)

\* G - B wraps to 226 in 8 bits, and the pixel is not flagged.
C10_Witness ==
    /\ pen # NotCalled
    /\ image[1].g = 0
    /\ image[1].b = 30
    /\ ~pen.masked_pen[1]

=============================================================================
